---- MODULE Spec2Model ----
(***************************************************************************)
(* State-machine model of src/server.js: an MCP transport in which calls   *)
(* arrive on POST /message and results are pushed on the SSE stream opened *)
(* by GET /sse-cursor.  Every handler runs to completion on the single     *)
(* JavaScript thread, so each handler is one action.                       *)
(***************************************************************************)
EXTENDS Integers, Sequences, FiniteSets, TLC

\* ---------------------------------------------------------------- bounds
MaxSteps == 4      \* handlers run in a behaviour of Spec
MaxWideSteps == 3  \* handlers run in a behaviour of SpecWide
MaxArithSteps == 3 \* handlers run in a behaviour of SpecArith

\* ------------------------------------------------------ JavaScript values
Undefined == [undef |-> TRUE]
Null == [null |-> TRUE]
Num(n) == [num |-> n]
Str(s) == [str |-> s]

\* JavaScript truthiness, as used by `!x` and `x || y`.
Truthy(v) == v \notin {Undefined, Null, Num(0), Str("")}

\* Property read with optional chaining: a missing property, or a read
\* through `?.` on undefined, is undefined.
Get(o, f) == IF f \in DOMAIN o THEN o[f] ELSE Undefined

\* `a ?? b`
Coalesce(a, b) == IF a \in {Undefined, Null} THEN b ELSE a

\* `a || b`
OrElse(a, b) == IF Truthy(a) THEN a ELSE b

\* Template-literal conversion `${v}`.
ToStr(v) ==
    IF v = Undefined THEN "undefined"
    ELSE IF v = Null THEN "null"
    ELSE IF "num" \in DOMAIN v THEN ToString(v.num)
    ELSE v.str

\* JSON.stringify of an object literal: properties whose value is undefined
\* are left out of the serialised object.
Stringify(o) == [f \in {g \in DOMAIN o : o[g] # Undefined} |-> o[f]]

\* `x + y` on the numbers the handler adds.
Plus(x, y) == Num(x.num + y.num)

\* -------------------------------------------------------------- constants
InvalidRequest == -32600
MethodNotFound == -32601

\* ------------------------------------------------------------------ state
VARIABLES
    sessions,   \* the Map sessionId -> [sseRes, initialized]
    conns,      \* per accepted GET: its sessionId, its hb timer, its socket
    streams,    \* per accepted GET: the events written to its response
    now,        \* Date.now(): the number of handlers that have run
    last,       \* the handler that ran last: its input and its outputs in order
    called      \* history: the registered sessionIds a POST was addressed to

vars == <<sessions, conns, streams, now, last, called>>

\* uuidv4(): version-4 uuids are distinct and the program never looks into
\* one, so the n-th draw is given the n-th name.
UuidNames == <<"s1", "s2", "s3", "s4", "s5", "s6", "s7", "s8">>
Issued == {conns[h].sessionId : h \in 1..Len(conns)}

\* An identifier source that repeats itself.
uuidRepeated == Str(UuidNames[1])

uuidv4 == Str(UuidNames[Len(conns) + 1])

NoOp == [op |-> "none", sessionId |-> Undefined, rpc |-> Undefined, out |-> <<>>]

Init ==
    /\ sessions = <<>>
    /\ conns = <<>>
    /\ streams = <<>>
    /\ now = 0
    /\ last = NoOp
    /\ called = {}

\* ---------------------------------------------------------------- outputs
Http(status, body) == [chan |-> "http", status |-> status, body |-> body]
Write(res, event, data) == [chan |-> "sse", res |-> res, event |-> event, data |-> data]

\* The events an output sequence appends to the stream of response `h`.
RECURSIVE Written(_, _)
Written(out, h) ==
    IF out = <<>> THEN <<>>
    ELSE LET o == Head(out) IN
         (IF o.chan = "sse" /\ o.res = h
             THEN <<[event |-> o.event, data |-> o.data]>> ELSE <<>>)
         \o Written(Tail(out), h)

\* --------------------------------------------------------- GET /sse-cursor
\* The handler sending a first heartbeat before it announces the endpoint.
SseCursorHeartbeatFirst ==
    /\ LET sessionId == uuidv4
           res == Len(conns) + 1
           out == <<Write(res, "heartbeat", now),
                    Write(res, "endpoint", <<"/message?sessionId=", ToStr(sessionId)>>)>>
       IN /\ sessions' = [k \in DOMAIN sessions \cup {sessionId} |->
                             IF k = sessionId
                                THEN [sseRes |-> [res |-> res], initialized |-> FALSE]
                                ELSE sessions[k]]
          /\ streams' = Append(streams, Written(out, res))
          /\ conns' = Append(conns, [sessionId |-> sessionId, hb |-> "active", open |-> TRUE])
          /\ last' = [op |-> "open", sessionId |-> sessionId, rpc |-> Undefined, out |-> out]
    /\ now' = now + 1
    /\ UNCHANGED called

\* The handler pushing the capabilities as soon as the stream opens.
SseCursorWithCaps ==
    /\ LET sessionId == uuidv4
           res == Len(conns) + 1
           out == <<Write(res, "endpoint", <<"/message?sessionId=", ToStr(sessionId)>>),
                    Write(res, "message", [jsonrpc |-> Str("2.0"),
                                           result |-> [protocolVersion |-> "2024-11-05"]])>>
       IN /\ sessions' = [k \in DOMAIN sessions \cup {sessionId} |->
                             IF k = sessionId
                                THEN [sseRes |-> [res |-> res], initialized |-> FALSE]
                                ELSE sessions[k]]
          /\ streams' = Append(streams, Written(out, res))
          /\ conns' = Append(conns, [sessionId |-> sessionId, hb |-> "active", open |-> TRUE])
          /\ last' = [op |-> "open", sessionId |-> sessionId, rpc |-> Undefined, out |-> out]
    /\ now' = now + 1
    /\ UNCHANGED called

SseCursor ==
    /\ LET sessionId == uuidv4
           res == Len(conns) + 1
           out == <<Write(res, "endpoint", <<"/message?sessionId=", ToStr(sessionId)>>)>>
       IN /\ sessions' = [k \in DOMAIN sessions \cup {sessionId} |->
                             IF k = sessionId
                                THEN [sseRes |-> [res |-> res], initialized |-> FALSE]
                                ELSE sessions[k]]
          /\ streams' = Append(streams, Written(out, res))
          /\ conns' = Append(conns, [sessionId |-> sessionId, hb |-> "active", open |-> TRUE])
          /\ last' = [op |-> "open", sessionId |-> sessionId, rpc |-> Undefined, out |-> out]
    /\ now' = now + 1
    /\ UNCHANGED called

\* The setInterval callback of connection h.
Heartbeat(h) ==
    /\ conns[h].hb = "active"
    /\ LET out == <<Write(h, "heartbeat", now)>>
       IN /\ streams' = [streams EXCEPT ![h] = @ \o Written(out, h)]
          /\ last' = [op |-> "heartbeat", sessionId |-> conns[h].sessionId,
                      rpc |-> Undefined, out |-> out]
    /\ now' = now + 1
    /\ UNCHANGED <<sessions, conns, called>>

\* A close handler that deletes the Map entry and leaves the timer running.
OnCloseLeak(h) ==
    /\ conns[h].open
    /\ conns' = [conns EXCEPT ![h].open = FALSE]
    /\ sessions' = [k \in DOMAIN sessions \ {conns[h].sessionId} |-> sessions[k]]
    /\ last' = [op |-> "close", sessionId |-> conns[h].sessionId,
                rpc |-> Undefined, out |-> <<>>]
    /\ now' = now + 1
    /\ UNCHANGED <<streams, called>>

\* A close handler that clears the timer and leaves the Map entry.
OnCloseKeep(h) ==
    /\ conns[h].open
    /\ conns' = [conns EXCEPT ![h].hb = "cleared", ![h].open = FALSE]
    /\ last' = [op |-> "close", sessionId |-> conns[h].sessionId,
                rpc |-> Undefined, out |-> <<>>]
    /\ now' = now + 1
    /\ UNCHANGED <<sessions, streams, called>>

\* A close handler that empties the Map and clears every timer.
OnCloseAll(h) ==
    /\ conns[h].open
    /\ conns' = [g \in 1..Len(conns) |->
                    [conns[g] EXCEPT !.hb = "cleared",
                                     !.open = IF g = h THEN FALSE ELSE @]]
    /\ sessions' = [k \in {} |-> sessions[k]]
    /\ last' = [op |-> "close", sessionId |-> conns[h].sessionId,
                rpc |-> Undefined, out |-> <<>>]
    /\ now' = now + 1
    /\ UNCHANGED <<streams, called>>

\* A close handler that keeps the Map entry and drops its stream handle.
OnCloseNullify(h) ==
    /\ conns[h].open
    /\ conns' = [conns EXCEPT ![h].hb = "cleared", ![h].open = FALSE]
    /\ sessions' = [sessions EXCEPT ![conns[h].sessionId].sseRes = Null]
    /\ last' = [op |-> "close", sessionId |-> conns[h].sessionId,
                rpc |-> Undefined, out |-> <<>>]
    /\ now' = now + 1
    /\ UNCHANGED <<streams, called>>

\* req.on("close") of connection h; the event is emitted once per request.
OnClose(h) ==
    /\ conns[h].open
    /\ conns' = [conns EXCEPT ![h].hb = "cleared", ![h].open = FALSE]
    /\ sessions' = [k \in DOMAIN sessions \ {conns[h].sessionId} |-> sessions[k]]
    /\ last' = [op |-> "close", sessionId |-> conns[h].sessionId,
                rpc |-> Undefined, out |-> <<>>]
    /\ now' = now + 1
    /\ UNCHANGED <<streams, called>>

\* ----------------------------------------------------------- POST /message
\* A format check that forgets the method: `!rpc || rpc.jsonrpc !== "2.0"`.
MalformedTagOnly(rpc) ==
    \/ ~Truthy(rpc)
    \/ Get(rpc, "jsonrpc") # Str("2.0")

\* The JSON-RPC format check: `!rpc || rpc.jsonrpc !== "2.0" || !rpc.method`.
Malformed(rpc) ==
    \/ ~Truthy(rpc)
    \/ Get(rpc, "jsonrpc") # Str("2.0")
    \/ ~Truthy(Get(rpc, "method"))

InitCaps(rpc) ==
    [jsonrpc |-> Str("2.0"),
     id |-> rpc.id,
     result |-> [protocolVersion |-> "2024-11-05",
                 capabilities |-> [tools |-> [listChanged |-> TRUE],
                                   resources |-> [subscribe |-> TRUE, listChanged |-> TRUE],
                                   prompts |-> [listChanged |-> TRUE],
                                   logging |-> "{}"],
                 serverInfo |-> [name |-> "final-capabilities-server",
                                 version |-> "1.0.0"]]]

\* tools/list answering with `rpc.id || 1`.
ToolsMsgDefaultId(rpc) ==
    [jsonrpc |-> Str("2.0"),
     id |-> OrElse(rpc.id, Num(1)),
     result |-> [tools |-> <<[name |-> "addNumbersTool"]>>, count |-> 1]]

ToolsMsg(rpc) ==
    [jsonrpc |-> Str("2.0"),
     id |-> rpc.id,
     result |-> [tools |-> <<[name |-> "addNumbersTool",
                              description |-> "Adds two numbers 'a' and 'b' and returns their sum.",
                              inputSchema |-> [type |-> "object",
                                               properties |-> [a |-> [type |-> "number"],
                                                               b |-> [type |-> "number"]],
                                               required |-> <<"a", "b">>]]>>,
                 count |-> 1]]

EmptyObject == [object |-> TRUE]

\* The sum computed as `(args.a + args.b) || 0`: undefined + n is NaN.
CallMsgSumThenDefault(rpc, args) ==
    LET a == Get(args, "a")
        b == Get(args, "b")
        sum == IF "num" \in DOMAIN a /\ "num" \in DOMAIN b THEN Plus(a, b) ELSE Num(0)
    IN [jsonrpc |-> Str("2.0"),
        id |-> rpc.id,
        result |-> [content |-> <<[type |-> "text",
                                   text |-> <<"Sum of ", ToStr(a), " + ",
                                              ToStr(b), " = ", ToStr(sum)>>]>>]]

CallMsg(rpc, args) ==
    LET sum == Plus(OrElse(Get(args, "a"), Num(0)), OrElse(Get(args, "b"), Num(0)))
    IN [jsonrpc |-> Str("2.0"),
        id |-> rpc.id,
        result |-> [content |-> <<[type |-> "text",
                                   text |-> <<"Sum of ", ToStr(Get(args, "a")), " + ",
                                              ToStr(Get(args, "b")), " = ", ToStr(sum)>>]>>]]

\* The unknown-tool error without the name in its message.
CallErrNoName(rpc, toolName) ==
    [jsonrpc |-> Str("2.0"),
     id |-> rpc.id,
     error |-> [code |-> MethodNotFound,
                message |-> <<"No such tool">>]]

CallErr(rpc, toolName) ==
    [jsonrpc |-> Str("2.0"),
     id |-> rpc.id,
     error |-> [code |-> MethodNotFound,
                message |-> <<"No such tool '", ToStr(toolName), "'">>]]

\* The unknown-method error reported as an internal error.
ErrObjInternal(rpc) ==
    [jsonrpc |-> Str("2.0"),
     id |-> rpc.id,
     error |-> [code |-> -32603,
                message |-> <<"Method '", ToStr(rpc.method), "' not recognized">>]]

ErrObj(rpc) ==
    [jsonrpc |-> Str("2.0"),
     id |-> rpc.id,
     error |-> [code |-> MethodNotFound,
                message |-> <<"Method '", ToStr(rpc.method), "' not recognized">>]]

\* switch (rpc.method): the writes to the session's stream, in order.
Dispatch(rpc, res) ==
    IF rpc.method = Str("initialize")
        THEN <<Write(res, "message", Stringify(InitCaps(rpc)))>>
    ELSE IF rpc.method = Str("tools/list")
        THEN <<Write(res, "message", Stringify(ToolsMsg(rpc)))>>
    ELSE IF rpc.method = Str("tools/call")
        THEN LET toolName == Get(Get(rpc, "params"), "name")
                 args == OrElse(Get(Get(rpc, "params"), "arguments"), EmptyObject)
             IN IF toolName = Str("addNumbersTool")
                   THEN <<Write(res, "message", Stringify(CallMsg(rpc, args)))>>
                   ELSE <<Write(res, "message", Stringify(CallErr(rpc, toolName)))>>
    ELSE IF rpc.method = Str("notifications/initialized")
        THEN <<>>
    ELSE <<Write(res, "message", Stringify(ErrObj(rpc)))>>

\* The ack built like the error reply, with `rpc.id ?? null`.
AckNullId(rpc) ==
    Http(200, Stringify([jsonrpc |-> Str("2.0"),
                         id |-> Coalesce(rpc.id, Null),
                         result |-> [ack |-> <<"Received ", ToStr(rpc.method)>>]]))

\* The minimal HTTP ack.
Ack(rpc) ==
    Http(200, Stringify([jsonrpc |-> Str("2.0"),
                         id |-> rpc.id,
                         result |-> [ack |-> <<"Received ", ToStr(rpc.method)>>]]))

\* The -32600 reply with `rpc?.id || null`.
FormatErrorOr(rpc) ==
    Http(200, Stringify([jsonrpc |-> Str("2.0"),
                         id |-> OrElse(Get(rpc, "id"), Null),
                         error |-> [code |-> InvalidRequest,
                                    message |-> "Invalid JSON-RPC request"]]))

\* The body of the -32600 reply.
FormatError(rpc) ==
    Http(200, Stringify([jsonrpc |-> Str("2.0"),
                         id |-> Coalesce(Get(rpc, "id"), Null),
                         error |-> [code |-> InvalidRequest,
                                    message |-> "Invalid JSON-RPC request"]]))

\* The handler writing to the stream before it acknowledges.
MessageOutWriteFirst(sessionId, rpc) ==
    IF ~Truthy(sessionId)
        THEN <<Http(400, [error |-> "Missing sessionId in ?sessionId=..."])>>
    ELSE IF sessionId \notin DOMAIN sessions
        THEN <<Http(404, [error |-> "No SSE session with that sessionId"])>>
    ELSE IF Malformed(rpc)
        THEN <<FormatError(rpc)>>
    ELSE LET sseRes == sessions[sessionId].sseRes
         IN (IF ~Truthy(sseRes) THEN <<>> ELSE Dispatch(rpc, sseRes.res)) \o <<Ack(rpc)>>

\* The handler refusing every method but initialize until the session is
\* initialized.
MessageOutGated(sessionId, rpc) ==
    IF ~Truthy(sessionId)
        THEN <<Http(400, [error |-> "Missing sessionId in ?sessionId=..."])>>
    ELSE IF sessionId \notin DOMAIN sessions
        THEN <<Http(404, [error |-> "No SSE session with that sessionId"])>>
    ELSE IF Malformed(rpc)
        THEN <<FormatError(rpc)>>
    ELSE LET sseRes == sessions[sessionId].sseRes
         IN <<Ack(rpc)>> \o
            (IF ~Truthy(sseRes) THEN <<>>
             ELSE IF ~sessions[sessionId].initialized /\ rpc.method # Str("initialize")
                THEN <<Write(sseRes.res, "message",
                             Stringify([jsonrpc |-> Str("2.0"), id |-> rpc.id,
                                        error |-> [code |-> -32002,
                                                   message |-> <<"Not initialized">>]]))>>
             ELSE Dispatch(rpc, sseRes.res))

\* The handler checking the envelope before it looks the session up.
MessageOutValidateFirst(sessionId, rpc) ==
    IF ~Truthy(sessionId)
        THEN <<Http(400, [error |-> "Missing sessionId in ?sessionId=..."])>>
    ELSE IF Malformed(rpc)
        THEN <<FormatError(rpc)>>
    ELSE IF sessionId \notin DOMAIN sessions
        THEN <<Http(404, [error |-> "No SSE session with that sessionId"])>>
    ELSE LET sseRes == sessions[sessionId].sseRes
         IN <<Ack(rpc)>> \o (IF ~Truthy(sseRes) THEN <<>> ELSE Dispatch(rpc, sseRes.res))

\* Everything the handler sends for one request, in the order it sends it.
MessageOut(sessionId, rpc) ==
    IF ~Truthy(sessionId)
        THEN <<Http(400, [error |-> "Missing sessionId in ?sessionId=..."])>>
    ELSE IF sessionId \notin DOMAIN sessions
        THEN <<Http(404, [error |-> "No SSE session with that sessionId"])>>
    ELSE IF Malformed(rpc)
        THEN <<FormatError(rpc)>>
    ELSE LET sseRes == sessions[sessionId].sseRes
         IN <<Ack(rpc)>> \o (IF ~Truthy(sseRes) THEN <<>> ELSE Dispatch(rpc, sseRes.res))

\* The flag also set by notifications/initialized.
SetsInitializedOnNotification(sessionId, rpc) ==
    /\ Truthy(sessionId)
    /\ sessionId \in DOMAIN sessions
    /\ ~Malformed(rpc)
    /\ Truthy(sessions[sessionId].sseRes)
    /\ rpc.method \in {Str("initialize"), Str("notifications/initialized")}

\* The flag set before the format check.
SetsInitializedUnchecked(sessionId, rpc) ==
    /\ Truthy(sessionId)
    /\ sessionId \in DOMAIN sessions
    /\ Get(rpc, "method") = Str("initialize")

\* Whether the handler reaches `sessionData.initialized = true`.
SetsInitialized(sessionId, rpc) ==
    /\ Truthy(sessionId)
    /\ sessionId \in DOMAIN sessions
    /\ ~Malformed(rpc)
    /\ Truthy(sessions[sessionId].sseRes)
    /\ rpc.method = Str("initialize")

\* The handler with `sessionData.initialized = !sessionData.initialized`.
MessageToggle(sessionId, rpc) ==
    LET out == MessageOut(sessionId, rpc)
    IN /\ sessions' = IF SetsInitialized(sessionId, rpc)
                         THEN [sessions EXCEPT ![sessionId].initialized = ~@]
                         ELSE sessions
       /\ streams' = [h \in 1..Len(streams) |-> streams[h] \o Written(out, h)]
       /\ last' = [op |-> "message", sessionId |-> sessionId, rpc |-> rpc, out |-> out]
       /\ now' = now + 1
       /\ called' = IF sessionId \in DOMAIN sessions
                       THEN called \cup {sessionId} ELSE called
       /\ UNCHANGED conns

Message(sessionId, rpc) ==
    LET out == MessageOut(sessionId, rpc)
    IN /\ sessions' = IF SetsInitialized(sessionId, rpc)
                         THEN [sessions EXCEPT ![sessionId].initialized = TRUE]
                         ELSE sessions
       /\ streams' = [h \in 1..Len(streams) |-> streams[h] \o Written(out, h)]
       /\ last' = [op |-> "message", sessionId |-> sessionId, rpc |-> rpc, out |-> out]
       /\ now' = now + 1
       /\ called' = IF sessionId \in DOMAIN sessions
                       THEN called \cup {sessionId} ELSE called
       /\ UNCHANGED conns

\* ------------------------------------------------------------------ inputs
Rpc(j, i, m, p) == [jsonrpc |-> j, id |-> i, method |-> m, params |-> p]
Params(n, a) == [name |-> n, arguments |-> a]
Args(a, b) == [a |-> a, b |-> b]

Methods == {Str("initialize"), Str("tools/list"), Str("tools/call"),
            Str("notifications/initialized"), Str("foo")}

\* Requests of a run of Spec: well-formed calls of every method with an id
\* that is absent, zero or non-zero, a request without a payload and an
\* initialize with the wrong protocol tag.
ToolParams == {Params(Str("addNumbersTool"), Args(Num(2), Num(3))),
               Params(Str("doesNotExist"), Undefined)}
Ids == {Undefined, Num(0), Num(1)}
Envelopes ==
    {Undefined, Rpc(Str("1.0"), Num(1), Str("initialize"), Undefined)}
    \cup {Rpc(Str("2.0"), i, m, Undefined) : i \in Ids, m \in Methods \ {Str("tools/call")}}
    \cup {Rpc(Str("2.0"), i, Str("tools/call"), p) : i \in Ids, p \in ToolParams}
\* The sessionId query parameter: absent, an identifier some endpoint event
\* announced, or one no endpoint event ever announced.
SessionArgs == Issued \cup {Undefined, Str("zz")}
WideSessionArgs == Issued \cup {Undefined, Str(""), Str("zz")}

\* Requests of a run of SpecWide: every combination of tag, id and method,
\* with every shape of params on a well-tagged tools/call.
WideIds == {Undefined, Null, Num(0), Num(1)}
WideTags == {Undefined, Str("1.0"), Str("2.0")}
WideMethods == Methods \cup {Undefined, Null, Str("")}
WideParams == ToolParams \cup {Undefined, Params(Undefined, Undefined),
                               Params(Str("addNumbersTool"), Undefined)}
WideEnvelopes ==
    {Undefined}
    \cup {Rpc(j, i, m, Undefined) : j \in WideTags, i \in WideIds, m \in WideMethods}
    \cup {Rpc(Str("2.0"), i, Str("tools/call"), p) : i \in WideIds, p \in WideParams}

\* Requests of a run of SpecArith: addNumbersTool with every pair of
\* arguments that are absent, null or an integer, and with no arguments.
ArithVals == {Undefined, Null, Num(-2), Num(0), Num(2), Num(3)}
ArithEnvelopes ==
    {Rpc(Str("2.0"), Num(1), Str("tools/call"), Params(Str("addNumbersTool"), x)) :
        x \in {Undefined} \cup {Args(a, b) : a, b \in ArithVals}}

\* ---------------------------------------------------------- specifications
Next ==
    \/ now < MaxSteps /\ SseCursor
    \/ now < MaxSteps /\ \E h \in 1..Len(conns) : Heartbeat(h)
    \/ now < MaxSteps /\ \E h \in 1..Len(conns) : OnClose(h)
    \/ now < MaxSteps /\ \E sessionId \in SessionArgs, rpc \in Envelopes :
                            Message(sessionId, rpc)

Spec == Init /\ [][Next]_vars

NextWide ==
    \/ now < MaxWideSteps /\ SseCursor
    \/ now < MaxWideSteps /\ \E h \in 1..Len(conns) : Heartbeat(h)
    \/ now < MaxWideSteps /\ \E h \in 1..Len(conns) : OnClose(h)
    \/ now < MaxWideSteps /\ \E sessionId \in WideSessionArgs, rpc \in WideEnvelopes :
                                Message(sessionId, rpc)

SpecWide == Init /\ [][NextWide]_vars

NextArith ==
    \/ now < MaxArithSteps /\ SseCursor
    \/ now < MaxArithSteps /\ \E h \in 1..Len(conns) : Heartbeat(h)
    \/ now < MaxArithSteps /\ \E h \in 1..Len(conns) : OnClose(h)
    \/ now < MaxArithSteps /\ \E sessionId \in SessionArgs, rpc \in ArithEnvelopes :
                                 Message(sessionId, rpc)

SpecArith == Init /\ [][NextArith]_vars

\* ------------------------------------------------------------------ claims
\* What the last handler sent on the HTTP exchange and on the streams.
Replies == SelectSeq(last.out, LAMBDA o : o.chan = "http")
Writes == SelectSeq(last.out, LAMBDA o : o.chan = "sse")
Called == last.op = "message"
Registered == last.sessionId \in DOMAIN sessions
Closed == {conns[h].sessionId : h \in {g \in 1..Len(conns) : ~conns[g].open}}
Range(f) == {f[i] : i \in DOMAIN f}

\* An envelope with the protocol tag "2.0" and a non-empty method.
PassesValidation(rpc) ==
    /\ rpc # Undefined
    /\ rpc.jsonrpc = Str("2.0")
    /\ Truthy(rpc.method)

\* The reply is the ack of the envelope: status 200, a result, no error.
IsAck(reply) ==
    /\ reply.status = 200
    /\ "result" \in DOMAIN reply.body
    /\ "error" \notin DOMAIN reply.body

\* The id a body carries: the value of its id property, undefined when the
\* body has none.
SameId(body, id) ==
    /\ ("id" \in DOMAIN body) = (id # Undefined)
    /\ Get(body, "id") = id

\* C1: on a registered session, a call that passes validation and whose
\* method is not notifications/initialized writes a message event to that
\* session's stream, and every event the call writes is a message event on
\* that stream carrying exactly the envelope's id (no id when the envelope
\* has none); the event is the last one of that stream.
C1_AsyncIdEchoed ==
    (Called /\ Registered /\ PassesValidation(last.rpc)) =>
        LET h == sessions[last.sessionId].sseRes.res
        IN /\ last.rpc.method # Str("notifications/initialized") => Len(Writes) >= 1
           /\ \A i \in 1..Len(Writes) :
                /\ Writes[i].event = "message"
                /\ Writes[i].res = h
                /\ SameId(Writes[i].data, last.rpc.id)
           /\ Len(Writes) >= 1 =>
                /\ streams[h] # <<>>
                /\ streams[h][Len(streams[h])].event = "message"
                /\ SameId(streams[h][Len(streams[h])].data, last.rpc.id)

\* Two sessions hold message events with different ids and the last call
\* answered on the second one.
C1_Witness ==
    /\ Called /\ Registered /\ PassesValidation(last.rpc) /\ Len(Writes) = 1
    /\ \E h1, h2 \in 1..Len(streams) :
         /\ h1 # h2
         /\ sessions[last.sessionId].sseRes.res = h2
         /\ \E e \in Range(streams[h1]) :
              /\ e.event = "message"
              /\ Get(e.data, "id") # last.rpc.id

\* C2: a call with tag "2.0" and a non-empty method on a registered session
\* is answered on the HTTP exchange by exactly one reply, the ack, whose id
\* is the envelope's id.
C2_AckIdEchoed ==
    (Called /\ Registered /\ PassesValidation(last.rpc)) =>
        /\ Len(Replies) = 1
        /\ IsAck(Replies[1])
        /\ SameId(Replies[1].body, last.rpc.id)

C2_Witness ==
    /\ Called /\ Registered /\ PassesValidation(last.rpc)
    /\ last.rpc.id = Num(0)
    /\ Len(Replies) = 1 /\ Get(Replies[1].body, "id") = Num(0)

\* C3: every call sends its HTTP reply first: the first output of the
\* handler is the reply, and every stream write of the call comes after it.
C3_AckBeforeWrite ==
    Called =>
        /\ Len(last.out) >= 1
        /\ last.out[1].chan = "http"
        /\ \A i \in 2..Len(last.out) : last.out[i].chan = "sse"

C3_Witness ==
    /\ Called /\ Len(last.out) = 2
    /\ last.out[1].chan = "http" /\ last.out[2].chan = "sse"

\* C4: a session id whose stream's close was handled is not in the registry,
\* and a call addressed to it is answered 404 and writes to no stream.
C4_ClosedIsGone ==
    /\ Closed \cap DOMAIN sessions = {}
    /\ (Called /\ last.sessionId \in Closed) =>
           /\ Len(Replies) = 1 /\ Replies[1].status = 404
           /\ Writes = <<>>

C4_Witness ==
    /\ Called /\ last.sessionId \in Closed
    /\ PassesValidation(last.rpc) /\ last.rpc.method = Str("initialize")
    /\ Len(Replies) = 1 /\ Replies[1].status = 404

\* An envelope that is absent, or has no tag or another tag than "2.0", or
\* has no method (the property is missing or null).
ClaimedMalformed(rpc) ==
    \/ rpc = Undefined
    \/ rpc.jsonrpc # Str("2.0")
    \/ rpc.method \in {Undefined, Null}

\* C5: a malformed envelope on a registered session gets exactly one reply,
\* the error -32600, whose id property is present and is the envelope's id
\* when it has one and null otherwise; the call writes to no stream.
C5_MalformedReply ==
    (Called /\ Registered /\ ClaimedMalformed(last.rpc)) =>
        /\ Len(Replies) = 1 /\ Len(last.out) = 1
        /\ Replies[1].status = 200
        /\ "error" \in DOMAIN Replies[1].body
        /\ Replies[1].body.error.code = -32600
        /\ "id" \in DOMAIN Replies[1].body
        /\ Replies[1].body.id = (IF Get(last.rpc, "id") = Undefined
                                    THEN Null ELSE last.rpc.id)

\* A registered session got a wrongly tagged envelope with id 0.
C5_Witness ==
    /\ Called /\ Registered /\ last.rpc # Undefined
    /\ last.rpc.jsonrpc = Str("1.0") /\ last.rpc.id = Num(0)
    /\ Len(Replies) = 1 /\ Get(Replies[1].body, "id") = Num(0)

\* C6: the session ids of all streams opened so far are pairwise distinct;
\* every stream that has not closed is in the registry under its own id and
\* its entry holds that stream's own response, so that no open or close of
\* another stream took it away; a call addressed to it is answered 200.
C6_DistinctSessions ==
    /\ \A h1, h2 \in 1..Len(conns) :
         h1 # h2 => conns[h1].sessionId # conns[h2].sessionId
    /\ \A h \in 1..Len(conns) :
         conns[h].open =>
            /\ conns[h].sessionId \in DOMAIN sessions
            /\ sessions[conns[h].sessionId].sseRes = [res |-> h]
    /\ Cardinality(DOMAIN sessions)
         = Cardinality({h \in 1..Len(conns) : conns[h].open})
    /\ (Called /\ \E h \in 1..Len(conns) :
                     conns[h].open /\ conns[h].sessionId = last.sessionId) =>
           /\ Len(Replies) = 1
           /\ Replies[1].status = 200

\* Two streams were opened, the first has closed, and a call to the second
\* was acknowledged and answered on the second stream.
C6_Witness ==
    /\ Len(conns) = 2 /\ ~conns[1].open /\ conns[2].open
    /\ Called /\ last.sessionId = conns[2].sessionId
    /\ Len(Replies) = 1 /\ Replies[1].status = 200
    /\ Len(Writes) = 1 /\ Writes[1].res = 2

\* C7: the status of a call is 400 when the sessionId parameter is missing
\* or empty, else 404 when the sessionId is not in the registry, else 200
\* with the ack or the -32600 error as body, whatever the envelope is.
C7_StatusOrder ==
    Called =>
        /\ Len(Replies) = 1
        /\ IF last.sessionId \in {Undefined, Str("")}
              THEN Replies[1].status = 400
           ELSE IF last.sessionId \notin DOMAIN sessions
              THEN Replies[1].status = 404
           ELSE /\ Replies[1].status = 200
                /\ \/ IsAck(Replies[1])
                   \/ /\ "error" \in DOMAIN Replies[1].body
                      /\ Replies[1].body.error.code = -32600

\* A malformed envelope addressed to an unknown session was answered 404.
C7_Witness ==
    /\ Called /\ last.sessionId = Str("zz")
    /\ last.rpc # Undefined /\ last.rpc.method = Undefined
    /\ Len(Replies) = 1 /\ Replies[1].status = 404

\* The positions of a stream that carry the result of an initialize.
InitResults(stream) ==
    {i \in 1..Len(stream) :
        /\ stream[i].event = "message"
        /\ "result" \in DOMAIN stream[i].data
        /\ DOMAIN stream[i].data.result
             = {"protocolVersion", "capabilities", "serverInfo"}}

\* C8: no step takes the initialized flag of a registered session from true
\* to false, and a well-formed initialize on a session whose flag is already
\* true is acknowledged, writes one more initialize result (protocol
\* version, capabilities, server identity) to the session's stream and
\* leaves the flag true.
C8_InitializeIdempotent ==
    [][/\ \A s \in DOMAIN sessions \cap DOMAIN sessions' :
            sessions[s].initialized => sessions'[s].initialized
       /\ (/\ last'.op = "message"
           /\ last'.sessionId \in DOMAIN sessions
           /\ PassesValidation(last'.rpc)
           /\ last'.rpc.method = Str("initialize")
           /\ sessions[last'.sessionId].initialized) =>
              LET h == sessions[last'.sessionId].sseRes.res
              IN /\ sessions'[last'.sessionId].initialized
                 /\ Len(Replies') = 1 /\ IsAck(Replies'[1])
                 /\ Len(Writes') = 1
                 /\ Cardinality(InitResults(streams'[h]))
                      = Cardinality(InitResults(streams[h])) + 1
                 /\ Len(streams'[h]) \in InitResults(streams'[h])]_vars

\* A session's stream holds two initialize results and its flag is true.
C8_Witness ==
    /\ Called /\ Registered /\ PassesValidation(last.rpc)
    /\ last.rpc.method = Str("initialize")
    /\ sessions[last.sessionId].initialized
    /\ Cardinality(InitResults(streams[sessions[last.sessionId].sseRes.res])) = 2

\* The tool name a call asks for: `params.name`, undefined without params.
RequestedTool(rpc) == IF rpc.params = Undefined THEN Undefined ELSE rpc.params.name

\* An output that is a message event on stream h carrying the error -32601
\* and no result.
IsNotFoundEvent(o, h) ==
    /\ o.chan = "sse" /\ o.res = h /\ o.event = "message"
    /\ "error" \in DOMAIN o.data /\ "result" \notin DOMAIN o.data
    /\ o.data.error.code = -32601

\* C9: a well-formed tools/call on a registered session whose tool name is
\* missing or is not addNumbersTool sends exactly two things: the ack, then
\* one message event on the session's stream with the error -32601 whose
\* message contains the requested name ("undefined" for a missing name).
C9_UnknownTool ==
    (/\ Called /\ Registered /\ PassesValidation(last.rpc)
     /\ last.rpc.method = Str("tools/call")
     /\ RequestedTool(last.rpc) # Str("addNumbersTool")) =>
        /\ Len(last.out) = 2
        /\ last.out[1].chan = "http" /\ IsAck(last.out[1])
        /\ IsNotFoundEvent(last.out[2], sessions[last.sessionId].sseRes.res)
        /\ (IF RequestedTool(last.rpc) = Undefined
               THEN "undefined" ELSE RequestedTool(last.rpc).str)
             \in Range(last.out[2].data.error.message)

C9_Witness ==
    /\ Called /\ Registered /\ PassesValidation(last.rpc)
    /\ last.rpc.method = Str("tools/call")
    /\ RequestedTool(last.rpc) = Str("doesNotExist")
    /\ Len(last.out) = 2
    /\ "doesNotExist" \in Range(last.out[2].data.error.message)

KnownMethods == {Str("initialize"), Str("tools/list"), Str("tools/call"),
                 Str("notifications/initialized")}

\* C10: a well-formed call on a registered session whose method is none of
\* the four known ones sends the ack and then one message event with the
\* error -32601 whose message contains the method; and every JSON-RPC error
\* the server has sent has code -32600 on the HTTP exchange and -32601 on a
\* stream.
C10_UnknownMethod ==
    /\ (/\ Called /\ Registered /\ PassesValidation(last.rpc)
        /\ last.rpc.method \notin KnownMethods) =>
           /\ Len(last.out) = 2
           /\ last.out[1].chan = "http" /\ IsAck(last.out[1])
           /\ IsNotFoundEvent(last.out[2], sessions[last.sessionId].sseRes.res)
           /\ last.rpc.method.str \in Range(last.out[2].data.error.message)
    /\ \A i \in 1..Len(Replies) :
         ("jsonrpc" \in DOMAIN Replies[i].body /\ "error" \in DOMAIN Replies[i].body)
            => Replies[i].body.error.code = -32600
    /\ \A h \in 1..Len(streams) : \A i \in 1..Len(streams[h]) :
         (streams[h][i].event = "message" /\ "error" \in DOMAIN streams[h][i].data)
            => streams[h][i].data.error.code = -32601

C10_Witness ==
    /\ Called /\ Registered /\ PassesValidation(last.rpc)
    /\ last.rpc.method = Str("foo")
    /\ Len(last.out) = 2
    /\ "foo" \in Range(last.out[2].data.error.message)

\* The integer an argument of addNumbersTool stands for: itself, or 0 when
\* the argument is missing.
ArgValue(args, f) ==
    IF args # Undefined /\ "num" \in DOMAIN args[f] THEN args[f].num ELSE 0

\* C11: a well-formed tools/call of addNumbersTool on a registered session is
\* acknowledged and answered by one message event whose result is one text
\* block that ends with the decimal form of a + b, where a missing a or b
\* counts as 0 separately; the event carries no error.
C11_SumReported ==
    (/\ Called /\ Registered /\ PassesValidation(last.rpc)
     /\ last.rpc.method = Str("tools/call")
     /\ RequestedTool(last.rpc) = Str("addNumbersTool")) =>
        LET args == last.rpc.params.arguments
            expected == ArgValue(args, "a") + ArgValue(args, "b")
        IN /\ Len(last.out) = 2
           /\ last.out[1].chan = "http" /\ IsAck(last.out[1])
           /\ last.out[2].chan = "sse" /\ last.out[2].event = "message"
           /\ "error" \notin DOMAIN last.out[2].data
           /\ "result" \in DOMAIN last.out[2].data
           /\ Len(last.out[2].data.result.content) = 1
           /\ LET block == last.out[2].data.result.content[1]
              IN /\ block.type = "text"
                 /\ block.text[Len(block.text) - 1] = " = "
                 /\ block.text[Len(block.text)] = ToString(expected)

\* a = 2 and b = 3 reported 5.
C11_Witness ==
    /\ Called /\ Registered
    /\ last.rpc.params.arguments = Args(Num(2), Num(3))
    /\ Len(last.out) = 2
    /\ last.out[2].data.result.content[1].text[6] = "5"

\* a missing and b = 3 reported 3.
C11_WitnessDefault ==
    /\ Called /\ Registered
    /\ last.rpc.params.arguments = Args(Undefined, Num(3))
    /\ Len(last.out) = 2
    /\ last.out[2].data.result.content[1].text[6] = "3"

\* C12: the heartbeat timer of a stream is active exactly while the stream
\* has not closed; once the close of a stream was handled its timer is
\* cleared and stays cleared, and nothing is written to that stream again.
C12_TimerReleased ==
    /\ [](\A h \in 1..Len(conns) : (conns[h].hb = "active") = conns[h].open)
    /\ [][\A h \in 1..Len(conns) :
            ~conns[h].open =>
               /\ conns'[h] = conns[h]
               /\ streams'[h] = streams[h]]_vars

\* A stream that got a heartbeat has closed, its timer is cleared, and a
\* handler ran after the close.
C12_Witness ==
    \E h \in 1..Len(conns) :
        /\ ~conns[h].open /\ conns[h].hb = "cleared"
        /\ \E e \in Range(streams[h]) : e.event = "heartbeat"
        /\ last.op # "close"

\* C13: every stream starts with the endpoint event, whose data is
\* /message?sessionId= followed by the session's own id; every later event
\* of the stream is a heartbeat or a message.
C13_EndpointFirst ==
    \A h \in 1..Len(streams) :
        /\ Len(streams[h]) >= 1
        /\ streams[h][1] = [event |-> "endpoint",
                            data |-> <<"/message?sessionId=", conns[h].sessionId.str>>]
        /\ \A i \in 2..Len(streams[h]) : streams[h][i].event \in {"heartbeat", "message"}

\* A call arrived right after the stream opened and a heartbeat followed.
C13_Witness ==
    \E h \in 1..Len(streams) :
        /\ Len(streams[h]) = 3
        /\ streams[h][1].event = "endpoint"
        /\ streams[h][2].event = "message"
        /\ streams[h][3].event = "heartbeat"

\* C14 as stated: as long as no call was addressed to a session, its stream
\* holds the endpoint event and nothing else.
C14_NothingBeforeCall ==
    \A h \in 1..Len(streams) :
        conns[h].sessionId \notin called => Len(streams[h]) = 1

\* C14 amended: as long as no call was addressed to a session, its stream
\* holds the endpoint event followed by heartbeat events only.
C14_OnlyHeartbeatsBeforeCall ==
    \A h \in 1..Len(streams) :
        conns[h].sessionId \notin called =>
            /\ Len(streams[h]) >= 1
            /\ streams[h][1].event = "endpoint"
            /\ \A i \in 2..Len(streams[h]) : streams[h][i].event = "heartbeat"

\* A heartbeat was written to a stream no call was addressed to.
C14_Witness ==
    \E h \in 1..Len(streams) :
        /\ conns[h].sessionId \notin called
        /\ Len(streams[h]) = 2
        /\ streams[h][2].event = "heartbeat"

\* C15: a well-formed notifications/initialized on a registered session sends
\* the ack and nothing else; it writes to no stream and changes no session.
C15_NotificationSilent ==
    [][(/\ last'.op = "message"
        /\ last'.sessionId \in DOMAIN sessions
        /\ PassesValidation(last'.rpc)
        /\ last'.rpc.method = Str("notifications/initialized")) =>
           /\ Len(last'.out) = 1
           /\ last'.out[1].chan = "http" /\ IsAck(last'.out[1])
           /\ streams' = streams
           /\ sessions' = sessions]_vars

\* An uninitialized session got the notification and is still uninitialized.
C15_Witness ==
    /\ Called /\ Registered /\ PassesValidation(last.rpc)
    /\ last.rpc.method = Str("notifications/initialized")
    /\ ~sessions[last.sessionId].initialized
    /\ Len(last.out) = 1

\* The call was answered by the -32600 error.
Rejected ==
    /\ Len(Replies) = 1
    /\ "jsonrpc" \in DOMAIN Replies[1].body
    /\ "error" \in DOMAIN Replies[1].body
    /\ Replies[1].body.error.code = -32600

\* The call was acknowledged and handed to the switch.
Dispatched ==
    /\ Len(Replies) = 1 /\ IsAck(Replies[1])
    /\ last.rpc.method # Str("notifications/initialized") => Len(Writes) = 1

Shape(data) ==
    IF "error" \in DOMAIN data
       THEN [kind |-> "error", code |-> data.error.code]
       ELSE [kind |-> "result", keys |-> DOMAIN data.result]

\* The answer each call type gets, whatever the session's state.
ExpectedShape(rpc) ==
    IF rpc.method = Str("initialize")
       THEN [kind |-> "result", keys |-> {"protocolVersion", "capabilities", "serverInfo"}]
    ELSE IF rpc.method = Str("tools/list")
       THEN [kind |-> "result", keys |-> {"tools", "count"}]
    ELSE IF rpc.method = Str("tools/call") /\ RequestedTool(rpc) = Str("addNumbersTool")
       THEN [kind |-> "result", keys |-> {"content"}]
    ELSE [kind |-> "error", code |-> -32601]

\* C17: on a registered session every well-formed call gets the ack and the
\* answer of its call type whether the session's flag is false or true (no
\* event for notifications/initialized); a session starts with the flag
\* false, and the flag changes only from false to true and only in a step
\* that handles a well-formed initialize addressed to that session.
C17_NoInitGate ==
    /\ []((Called /\ Registered /\ PassesValidation(last.rpc)) =>
            /\ Len(Replies) = 1 /\ IsAck(Replies[1])
            /\ SameId(Replies[1].body, last.rpc.id)
            /\ IF last.rpc.method = Str("notifications/initialized")
                  THEN Writes = <<>>
                  ELSE /\ Len(Writes) = 1
                       /\ Writes[1].event = "message"
                       /\ Shape(Writes[1].data) = ExpectedShape(last.rpc)
                       /\ SameId(Writes[1].data, last.rpc.id))
    /\ [][/\ \A s \in DOMAIN sessions' \ DOMAIN sessions : ~sessions'[s].initialized
          /\ \A s \in DOMAIN sessions \cap DOMAIN sessions' :
               sessions'[s].initialized # sessions[s].initialized =>
                  /\ ~sessions[s].initialized
                  /\ last'.op = "message" /\ last'.sessionId = s
                  /\ PassesValidation(last'.rpc)
                  /\ last'.rpc.method = Str("initialize")]_vars

\* A session that was never initialized got the result of a tool call.
C17_Witness ==
    /\ Called /\ Registered /\ PassesValidation(last.rpc)
    /\ last.rpc.method = Str("tools/call")
    /\ ~sessions[last.sessionId].initialized
    /\ Len(Writes) = 1 /\ "result" \in DOMAIN Writes[1].data

\* The reply of a handler is an error of the HTTP exchange: the 400 or 404
\* body, or the -32600 body.
SyncError(out) ==
    /\ Len(out) >= 1
    /\ out[1].chan = "http"
    /\ "error" \in DOMAIN out[1].body

\* C18: a call answered by a synchronous error sends nothing but that reply
\* and leaves the registry, every flag, every timer and every stream as they
\* were.
C18_SyncErrorTerminal ==
    [][(last'.op = "message" /\ SyncError(last'.out)) =>
           /\ Len(last'.out) = 1
           /\ sessions' = sessions
           /\ conns' = conns
           /\ streams' = streams]_vars

\* An initialize with a missing or wrong tag left its session uninitialized.
C18_Witness ==
    /\ Called /\ Registered /\ last.rpc # Undefined
    /\ last.rpc.method = Str("initialize")
    /\ last.rpc.jsonrpc # Str("2.0")
    /\ SyncError(last.out)
    /\ ~sessions[last.sessionId].initialized

\* C19: a step of session S (an open, a heartbeat, a call addressed to S, a
\* disconnect of S) leaves every other session's registry entry and flag,
\* stream contents and timer as they were; a call changes no timer and
\* removes no entry, and a disconnect of S removes S's entry, cancels S's
\* heartbeat and writes to no stream.
C19_SessionsIndependent ==
    [][LET S == last'.sessionId
       IN /\ \A h \in 1..Len(conns) :
                conns[h].sessionId # S =>
                   /\ conns'[h] = conns[h]
                   /\ streams'[h] = streams[h]
          /\ \A s \in DOMAIN sessions \ {S} :
                s \in DOMAIN sessions' /\ sessions'[s] = sessions[s]
          /\ last'.op = "message" =>
                /\ conns' = conns
                /\ DOMAIN sessions' = DOMAIN sessions
                /\ \A o \in Range(last'.out) :
                      o.chan = "sse" => conns[o.res].sessionId = S
          /\ last'.op = "close" =>
                /\ S \notin DOMAIN sessions'
                /\ streams' = streams
                /\ \A h \in 1..Len(conns) :
                      conns[h].sessionId = S => conns'[h].hb = "cleared"]_vars

\* Two sessions are registered, one initialized by the call just handled and
\* the other one still uninitialized with its timer running.
C19_Witness ==
    /\ Called /\ Registered /\ Len(Writes) = 1
    /\ last.rpc.method = Str("initialize")
    /\ sessions[last.sessionId].initialized
    /\ \E h \in 1..Len(conns) :
          /\ conns[h].sessionId # last.sessionId
          /\ conns[h].sessionId \in DOMAIN sessions
          /\ ~sessions[conns[h].sessionId].initialized
          /\ conns[h].hb = "active"

\* Two sessions were registered and one has disconnected: the other one is
\* still registered with its timer running.
C19_WitnessClose ==
    /\ last.op = "close" /\ last.sessionId \notin DOMAIN sessions
    /\ \E h \in 1..Len(conns) :
          /\ conns[h].sessionId \in DOMAIN sessions
          /\ conns[h].hb = "active"

\* C20: every session in the registry holds a stream handle, the one of its
\* own open connection, and every well-formed call on a registered session
\* with a method other than notifications/initialized writes exactly one
\* event, a message event on that session's stream.
C20_StreamAlwaysPresent ==
    /\ \A s \in DOMAIN sessions :
          /\ Truthy(sessions[s].sseRes)
          /\ sessions[s].sseRes.res \in 1..Len(conns)
          /\ conns[sessions[s].sseRes.res].sessionId = s
          /\ conns[sessions[s].sseRes.res].open
    /\ (/\ Called /\ Registered /\ PassesValidation(last.rpc)
        /\ last.rpc.method # Str("notifications/initialized")) =>
           /\ Len(Writes) = 1
           /\ Writes[1].event = "message"
           /\ Writes[1].res = Get(sessions[last.sessionId].sseRes, "res")

\* One session has disconnected and a call on another registered session
\* produced its one message event.
C20_Witness ==
    /\ Called /\ Registered /\ PassesValidation(last.rpc)
    /\ last.rpc.method = Str("tools/list")
    /\ Closed # {}
    /\ Len(Writes) = 1 /\ Writes[1].event = "message"

====
